---- MODULE Spec2Model ----
(***************************************************************************)
(* A model of furst_optics: the placement of the Rowland-circle components *)
(* (FeedOptic, Grating, Detector) as affine transformations, the surfaces  *)
(* built from them and from FrontAperture and SolarDisk, and the coating   *)
(* fit of feed_optics.materials.                                           *)
(*                                                                         *)
(* Lengths are integers in millimetres; coordinates of points and          *)
(* translations are kept in HALF millimetres (see HalfMm), so that         *)
(* radius / 2 is an integer.  Angles are integers in degrees and are       *)
(* multiples of 90, for which sine and cosine are exact.                   *)
(***************************************************************************)
EXTENDS Integers, Sequences, FiniteSets, TLC

(***************************************************************************)
(* Bounds of the model.                                                    *)
(***************************************************************************)
\* lengths (radius, rowland_radius) are drawn from 0..MaxLength mm
\* (rowland_radius also from -1, which the constructor accepts)
MaxLength == 2
\* rowland_azimuth is drawn from 90 * (-1..MaxAzimuthTurns) degrees
MaxAzimuthTurns == 4
\* pitch, yaw and roll are drawn from 90 * (0..MaxPoseTurns) degrees
MaxPoseTurns == 1
\* a translation is k mm along one axis, k in 0..MaxOffset
MaxOffset == 1

Lengths == 0..MaxLength
RowlandRadii == (-1)..MaxLength
Azimuths == {90 * k : k \in (-1)..MaxAzimuthTurns}
PoseAngles == {90 * k : k \in 0..MaxPoseTurns}
Offsets == {<<0, 0, 0>>}
             \cup {<<k, 0, 0>> : k \in 1..MaxOffset}
             \cup {<<0, k, 0>> : k \in 1..MaxOffset}
             \cup {<<0, 0, k>> : k \in 1..MaxOffset}

(***************************************************************************)
(* Units and trigonometry.                                                 *)
(***************************************************************************)
\* a length in mm as a coordinate in half millimetres
HalfMm(l) == 2 * l
\* half of a length in mm (radius / 2), as a coordinate in half millimetres
HalfOf(l) == l

\* np.cos / np.sin of an angle in degrees that is a multiple of 90
CosDeg(a) == CASE a % 360 = 0 -> 1
               [] a % 360 = 90 -> 0
               [] a % 360 = 180 -> -1
               [] a % 360 = 270 -> 0
SinDeg(a) == CASE a % 360 = 0 -> 0
               [] a % 360 = 90 -> 1
               [] a % 360 = 180 -> 0
               [] a % 360 = 270 -> -1

(***************************************************************************)
(* named_arrays.transformations: an affine map p |-> m p + v, held as the  *)
(* record [m, v]; a @ b is "b first, then a".                              *)
(***************************************************************************)
Origin == <<0, 0, 0>>
IdentityMatrix == <<<<1, 0, 0>>, <<0, 1, 0>>, <<0, 0, 1>>>>

Dot(r, p) == r[1] * p[1] + r[2] * p[2] + r[3] * p[3]
MatVec(m, p) == <<Dot(m[1], p), Dot(m[2], p), Dot(m[3], p)>>
Column(m, j) == <<m[1][j], m[2][j], m[3][j]>>
MatRow(r, b) == <<Dot(r, Column(b, 1)), Dot(r, Column(b, 2)), Dot(r, Column(b, 3))>>
MatMul(a, b) == <<MatRow(a[1], b), MatRow(a[2], b), MatRow(a[3], b)>>
VecAdd(p, q) == <<p[1] + q[1], p[2] + q[2], p[3] + q[3]>>

IdentityTransformation == [m |-> IdentityMatrix, v |-> Origin]
\* Cartesian3dTranslation(x, y, z), arguments in mm
Cartesian3dTranslation(x, y, z) ==
    [m |-> IdentityMatrix, v |-> <<HalfMm(x), HalfMm(y), HalfMm(z)>>]
\* Translation(vector), vector in mm
Translation(t) == Cartesian3dTranslation(t[1], t[2], t[3])
Cartesian3dRotationX(a) ==
    [m |-> <<<<1, 0, 0>>,
             <<0, CosDeg(a), -SinDeg(a)>>,
             <<0, SinDeg(a), CosDeg(a)>>>>, v |-> Origin]
\* mutation: an angle outside [0, 360) degrees taken as 0
Cartesian3dRotationYInRange(a) ==
    LET b == IF a < 0 \/ a >= 360 THEN 0 ELSE a
    IN  [m |-> <<<<CosDeg(b), 0, SinDeg(b)>>,
                 <<0, 1, 0>>,
                 <<-SinDeg(b), 0, CosDeg(b)>>>>, v |-> Origin]
Cartesian3dRotationY(a) ==
    [m |-> <<<<CosDeg(a), 0, SinDeg(a)>>,
             <<0, 1, 0>>,
             <<-SinDeg(a), 0, CosDeg(a)>>>>, v |-> Origin]
Cartesian3dRotationZ(a) ==
    [m |-> <<<<CosDeg(a), -SinDeg(a), 0>>,
             <<SinDeg(a), CosDeg(a), 0>>,
             <<0, 0, 1>>>>, v |-> Origin]

\* a @ b
MatMulT(a, b) == [m |-> MatMul(a.m, b.m), v |-> VecAdd(MatVec(a.m, b.v), a.v)]
\* transformation(p)
Apply(t, p) == VecAdd(MatVec(t.m, p), t.v)

\* TransformationList(ts).composed: the list's transformations are applied
\* in the order of the list (the first of the list acts on the point
\* first).  The example of the Detector docstring fixes the order: with
\* rowland_radius = 1000 mm and rowland_azimuth = 10 deg the surface is
\* drawn in the window z in 960..1020 mm, x in 120..220 mm, on the circle
\* rowland_radius * (sin(a), 0, cos(a)): the translation along z acts
\* before the rotation about y.
RECURSIVE ComposedUpTo(_, _)
ComposedUpTo(ts, n) ==
    IF n = 0 THEN IdentityTransformation
    ELSE MatMulT(ts[n], ComposedUpTo(ts, n - 1))
TransformationList(ts) == ComposedUpTo(ts, Len(ts))

(***************************************************************************)
(* The components.  A component is a record of its dataclass fields; the   *)
(* fields are those of the class declarations, with their defaults.        *)
(* A quantity field holds its value as an integer; the field unit holds    *)
(* the units of those quantity fields whose unit varies in the model       *)
(* (every other length is in mm, every other angle in degrees).  The unit  *)
(* "None" says that the field holds None; its value is then kept at 0.     *)
(***************************************************************************)
Kinds == {"FeedOptic", "Grating", "Detector"}
\* all the components of the package
Components == {"FrontAperture", "SolarDisk"} \cup Kinds

\* the placement fields every Rowland component declares
Placement(rowland_radius, rowland_azimuth) ==
    [rowland_radius |-> rowland_radius, rowland_azimuth |-> rowland_azimuth,
     translation |-> <<0, 0, 0>>, pitch |-> 0, yaw |-> 0, roll |-> 0]

\* f @@ g without the TLC module's operator precedence surprises
Merge(f, g) == [k \in (DOMAIN f) \cup (DOMAIN g) |-> IF k \in DOMAIN f THEN f[k] ELSE g[k]]

\* FeedOptic(radius=..., rowland_radius=..., rowland_azimuth=...)
FeedOptic(radius, rowland_radius, rowland_azimuth) ==
    Merge([kind |-> "FeedOptic", name |-> "feed optic", radius |-> radius,
           aperture_subtent |-> 0, aperture_height |-> 0,
           margin_polishing |-> 0, margin_mounting |-> 0, material |-> "None",
           unit |-> [radius |-> "mm", rowland_azimuth |-> "deg"]],
          Placement(rowland_radius, rowland_azimuth))

\* Grating(rowland_radius=..., rowland_azimuth=...)
Grating(rowland_radius, rowland_azimuth) ==
    Merge([kind |-> "Grating", name |-> "grating", sag |-> "None", radius |-> 0,
           width_clear |-> 0, width_mech |-> 0, material |-> "None",
           rulings |-> "None", unit |-> [rowland_azimuth |-> "deg"]],
          Placement(rowland_radius, rowland_azimuth))

\* the identification and readout-electronics fields of Detector, with
\* their defaults
Electronics ==
    [manufacturer |-> "", model_number |-> "", serial_number |-> "",
     num_pixel_overscan |-> 0, num_pixel_blank |-> 0,
     temperature |-> 0, gain |-> 0, readout_noise |-> 0, dark_current |-> 0,
     charge_diffusion |-> 0, timedelta_transfer |-> 0, timedelta_readout |-> 0,
     timedelta_exposure_min |-> 0, timedelta_exposure_max |-> 0, bits_adc |-> 0]

\* Detector(rowland_radius=..., rowland_azimuth=...)
Detector(rowland_radius, rowland_azimuth) ==
    Merge(Merge([kind |-> "Detector", name |-> "detector", width_pixel |-> 0,
                 axis_pixel |-> "None", num_pixel |-> 0, timedelta_exposure |-> 0,
                 material |-> "None", unit |-> [rowland_azimuth |-> "deg"]],
                Electronics),
          Placement(rowland_radius, rowland_azimuth))

\* FrontAperture()
FrontAperture ==
    [kind |-> "FrontAperture", translation |-> <<0, 0, 0>>]

\* sunpy.sun.constants.average_angular_size: 959.63 arcsec.  A quantity in
\* arcsec is held in hundredths of an arcsec (unit "arcsec/100").
average_angular_size == 95963

\* SolarDisk.__post_init__: an unset radius becomes the standard one
__post_init__(self) ==
    IF self.unit.radius = "None"
    THEN [self EXCEPT !.radius = average_angular_size,
                      !.unit.radius = "arcsec/100"]
    ELSE self

\* mutation: a constructor that leaves the radius as it was given
SolarDiskAsGiven(radius, unit) ==
    [kind |-> "SolarDisk", radius |-> radius, unit |-> [radius |-> unit],
     translation |-> <<0, 0, 0>>]

\* SolarDisk(radius=radius * unit), and SolarDisk() as SolarDisk(0, "None"):
\* the generated __init__ stores the fields and calls __post_init__
SolarDisk(radius, unit) ==
    __post_init__([kind |-> "SolarDisk", radius |-> radius,
                   unit |-> [radius |-> unit], translation |-> <<0, 0, 0>>])

\* the component constructed with every field left at its default; the
\* default radius of FeedOptic is 0 * u.deg
Default(kind) ==
    CASE kind = "FrontAperture" -> FrontAperture
      [] kind = "SolarDisk" -> SolarDisk(0, "None")
      [] kind = "FeedOptic" -> [FeedOptic(0, 0, 0) EXCEPT !.unit.radius = "deg"]
      [] kind = "Grating" -> Grating(0, 0)
      [] kind = "Detector" -> Detector(0, 0)

\* no component constructed yet
NoComponent == [kind |-> "none"]

(***************************************************************************)
(* The transformation property.  Every class of the method resolution      *)
(* order that defines transformation returns                               *)
(*     super().transformation @ <its own step>                             *)
(* and optika.mixins.Transformable, the last of them, returns the          *)
(* identity.                                                               *)
(***************************************************************************)
\* mutation: the classes in the same order for every component
MroUniform(kind) ==
    <<"Rollable", "Yawable", "Pitchable", "Translatable", "AbstractRowlandComponent">>

\* the classes of the method resolution order that define transformation,
\* in that order, below the concrete class
Mro(kind) ==
    IF kind = "FeedOptic"
    THEN <<"Rollable", "Yawable", "Pitchable", "AbstractRowlandComponent", "Translatable">>
    ELSE IF kind \in {"FrontAperture", "SolarDisk"}
    THEN <<"Translatable">>
    ELSE <<"Rollable", "Yawable", "Pitchable", "Translatable", "AbstractRowlandComponent">>

\* mutation: a radius of 0 replaced by 1 mm, as a guard against a
\* degenerate circle would
RowlandStepsGuarded(c) ==
    <<Cartesian3dTranslation(0, 0, IF c.rowland_radius = 0 THEN 1 ELSE c.rowland_radius),
      Cartesian3dRotationY(c.rowland_azimuth)>>

\* mutation: the two Rowland steps the other way round
RowlandStepsSwapped(c) ==
    <<Cartesian3dRotationY(c.rowland_azimuth),
      Cartesian3dTranslation(0, 0, c.rowland_radius)>>

\* the two Rowland steps of AbstractRowlandComponent.transformation
RowlandSteps(c) ==
    <<Cartesian3dTranslation(0, 0, c.rowland_radius),
      Cartesian3dRotationY(c.rowland_azimuth)>>

\* what one class composes onto super().transformation
OwnStep(class, c) ==
    CASE class = "Rollable" -> Cartesian3dRotationZ(c.roll)
      [] class = "Yawable" -> Cartesian3dRotationY(c.yaw)
      [] class = "Pitchable" -> Cartesian3dRotationX(c.pitch)
      [] class = "Translatable" -> Translation(c.translation)
      [] class = "AbstractRowlandComponent" -> TransformationList(RowlandSteps(c))

\* the transformation property of the i-th class of the order, seen from
\* super() of the class before it
RECURSIVE SuperTransformation(_, _, _)
SuperTransformation(c, mro, i) ==
    IF i > Len(mro) THEN IdentityTransformation
    ELSE MatMulT(SuperTransformation(c, mro, i + 1), OwnStep(mro[i], c))

\* AbstractRowlandComponent.transformation and the mixins', as Grating and
\* Detector inherit them, and as FeedOptic reaches them through super()
InheritedTransformation(c) == SuperTransformation(c, Mro(c.kind), 1)

\* mutation: the chain without the rotation by -rowland_azimuth
FeedOpticTransformationNoYaw(c) ==
    LET t_center == Cartesian3dTranslation(0, 0, -c.radius)
        t_img == [m |-> IdentityMatrix, v |-> <<0, 0, HalfOf(c.radius)>>]
    IN  MatMulT(MatMulT(t_img, InheritedTransformation(c)), t_center)

\* mutation: the rotation before the inherited transformation by
\* +rowland_azimuth
FeedOpticTransformationYawAlong(c) ==
    LET t_center == Cartesian3dTranslation(0, 0, -c.radius)
        t_yaw == Cartesian3dRotationY(c.rowland_azimuth)
        t_img == [m |-> IdentityMatrix, v |-> <<0, 0, HalfOf(c.radius)>>]
    IN  MatMulT(MatMulT(MatMulT(t_img, InheritedTransformation(c)), t_yaw), t_center)

\* mutation: the last translation by radius instead of radius / 2
FeedOpticTransformationFullRadius(c) ==
    LET t_center == Cartesian3dTranslation(0, 0, -c.radius)
        t_yaw == Cartesian3dRotationY(-c.rowland_azimuth)
        t_img == Cartesian3dTranslation(0, 0, c.radius)
    IN  MatMulT(MatMulT(MatMulT(t_img, InheritedTransformation(c)), t_yaw), t_center)

\* FeedOptic.transformation
FeedOpticTransformation(c) ==
    LET t_center == Cartesian3dTranslation(0, 0, -c.radius)
        t_yaw == Cartesian3dRotationY(-c.rowland_azimuth)
        t_img == [m |-> IdentityMatrix, v |-> <<0, 0, HalfOf(c.radius)>>]
    IN  MatMulT(MatMulT(MatMulT(t_img, InheritedTransformation(c)), t_yaw), t_center)

\* component.transformation
TransformationOf(c) ==
    IF c.kind = "FeedOptic" THEN FeedOpticTransformation(c)
    ELSE InheritedTransformation(c)

(***************************************************************************)
(* The surface property.                                                   *)
(***************************************************************************)
\* FeedOptic.surface; half widths in mm, the mechanical x half width in
\* hundredths of a mm (0.99 * radius)
FeedOpticSurface(c) ==
    [name |-> c.name,
     sag |-> [type |-> "CylindricalSag", radius |-> c.radius],
     material |-> c.material,
     aperture |-> [type |-> "RectangularAperture",
                   half_width_x2 |-> <<2 * c.radius * SinDeg(c.aperture_subtent \div 2),
                                       c.aperture_height>>],
     aperture_mechanical |->
         [type |-> "RectangularAperture",
          half_width_x100 |-> 99 * c.radius,
          half_width_y2 |-> c.aperture_height + 2 * c.margin_mounting
                              + 2 * c.margin_polishing,
          samples_wire |-> 1001,
          transformation |-> Cartesian3dTranslation(
              0, c.margin_polishing - c.margin_mounting, 0)],
     transformation |-> TransformationOf(c)]

\* mutation: a grating that is not flagged as the pupil stop
GratingSurfaceNoStop(c) ==
    [name |-> c.name,
     sag |-> c.sag,
     material |-> c.material,
     aperture |-> [type |-> "RectangularAperture", half_width_x2 |-> c.width_clear],
     aperture_mechanical |-> [type |-> "RectangularAperture",
                              half_width_x2 |-> c.width_mech],
     rulings |-> c.rulings,
     transformation |-> TransformationOf(c)]

\* Grating.surface
GratingSurface(c) ==
    [name |-> c.name,
     sag |-> c.sag,
     material |-> c.material,
     aperture |-> [type |-> "RectangularAperture", half_width_x2 |-> c.width_clear],
     aperture_mechanical |-> [type |-> "RectangularAperture",
                              half_width_x2 |-> c.width_mech],
     rulings |-> c.rulings,
     is_pupil_stop |-> TRUE,
     transformation |-> TransformationOf(c)]

\* mutation: the gain handed on to the sensor
DetectorSurfaceWithGain(c) ==
    [name |-> c.name,
     width_pixel |-> c.width_pixel,
     axis_pixel |-> c.axis_pixel,
     num_pixel |-> c.num_pixel,
     timedelta_exposure |-> c.timedelta_exposure,
     material |-> c.material,
     gain |-> c.gain,
     transformation |-> TransformationOf(c)]

\* Detector.surface
DetectorSurface(c) ==
    [name |-> c.name,
     width_pixel |-> c.width_pixel,
     axis_pixel |-> c.axis_pixel,
     num_pixel |-> c.num_pixel,
     timedelta_exposure |-> c.timedelta_exposure,
     material |-> c.material,
     transformation |-> TransformationOf(c)]

\* FrontAperture.surface
FrontApertureSurface(c) ==
    [name |-> "front aperture",
     transformation |-> TransformationOf(c)]

\* np.cos of a whole number of degrees, rounded to units of 10^-6: the
\* cosines of 0..90 degrees, the others by the symmetries of the cosine
CosFirstQuadrant ==
    <<
      1000000, 999848, 999391, 998630, 997564, 996195, 994522, 992546,
      990268, 987688, 984808, 981627, 978148, 974370, 970296, 965926,
      961262, 956305, 951057, 945519, 939693, 933580, 927184, 920505,
      913545, 906308, 898794, 891007, 882948, 874620, 866025, 857167,
      848048, 838671, 829038, 819152, 809017, 798636, 788011, 777146,
      766044, 754710, 743145, 731354, 719340, 707107, 694658, 681998,
      669131, 656059, 642788, 629320, 615661, 601815, 587785, 573576,
      559193, 544639, 529919, 515038, 500000, 484810, 469472, 453990,
      438371, 422618, 406737, 390731, 374607, 358368, 342020, 325568,
      309017, 292372, 275637, 258819, 241922, 224951, 207912, 190809,
      173648, 156434, 139173, 121869, 104528, 87156, 69756, 52336, 34899,
      17452, 0
    >>
CosDegrees(a) ==
    LET r == a % 360
        h == IF r > 180 THEN 360 - r ELSE r
    IN  IF h > 90 THEN -CosFirstQuadrant[180 - h + 1] ELSE CosFirstQuadrant[h + 1]

\* np.cos of an angle of up to 1500 arcsec held in hundredths of an
\* arcsec, rounded to units of 10^-6: the cosine falls from 1 by one unit
\* at each of these magnitudes (the least whole value whose cosine rounds
\* to the next lower unit)
CosArcsecSteps ==
    <<
      20627, 35727, 46123, 54573, 61880, 68411, 74370, 79887, 85046,
      89909, 94523, 98922, 103133, 107179, 111078, 114844, 118491, 122029,
      125467, 128813, 132075, 135258, 138367, 141409, 144386, 147303
    >>
CosArcsec(value) ==
    LET size == IF value < 0 THEN -value ELSE value
    IN  1000000 - Cardinality({k \in 1..Len(CosArcsecSteps) : size >= CosArcsecSteps[k]})

\* np.cos of a quantity: the exception it raises (a TypeError for None,
\* astropy's UnitTypeError for a quantity that is no angle) or "none" and
\* the cosine rounded to units of 10^-6, for a whole number of degrees and
\* for an angle of up to 1500 arcsec in hundredths of an arcsec
CosQuantity(value, unit) ==
    CASE unit = "None" -> [error |-> "TypeError"]
      [] unit = "deg" -> [error |-> "none", e6 |-> CosDegrees(value)]
      [] unit = "arcsec/100" /\ value >= -150000 /\ value <= 150000 ->
             [error |-> "none", e6 |-> CosArcsec(value)]
      [] unit \notin {"deg", "arcsec/100"} -> [error |-> "UnitTypeError"]

\* mutation: the angular radius itself as the radius of the aperture
SolarDiskSurfaceAngle(c) ==
    [name |-> "solar disk",
     aperture |-> [type |-> "CircularAperture", radius_e6 |-> c.radius],
     is_field_stop |-> TRUE,
     transformation |-> TransformationOf(c)]

\* SolarDisk.surface; the radius of the aperture in units of 10^-6
SolarDiskSurface(c) ==
    [name |-> "solar disk",
     aperture |-> [type |-> "CircularAperture",
                   radius_e6 |-> CosQuantity(c.radius, c.unit.radius).e6],
     is_field_stop |-> TRUE,
     transformation |-> TransformationOf(c)]

\* mutation: a surface kept from before the pose was edited
SurfaceOfStale(c) ==
    LET before == [c EXCEPT !.pitch = 0, !.yaw = 0, !.roll = 0]
    IN  CASE c.kind = "FeedOptic" -> FeedOpticSurface(before)
          [] c.kind = "Grating" -> GratingSurface(before)
          [] c.kind = "Detector" -> DetectorSurface(before)

\* component.surface
SurfaceOf(c) ==
    CASE c.kind = "FeedOptic" -> FeedOpticSurface(c)
      [] c.kind = "Grating" -> GratingSurface(c)
      [] c.kind = "Detector" -> DetectorSurface(c)
      [] c.kind = "FrontAperture" -> FrontApertureSurface(c)
      [] c.kind = "SolarDisk" -> SolarDiskSurface(c)

(***************************************************************************)
(* What an access ends with when a field holds a value the arithmetic of   *)
(* the property does not take.  No constructor checks its arguments, so    *)
(* such a field is found only here.                                        *)
(***************************************************************************)
\* the exception the transformation property raises, or "none":
\* FeedOptic.transformation negates radius and rowland_azimuth, and the
\* negation of None is a TypeError; the other classes only store their
\* fields in the steps
TransformationRaises(c) ==
    IF c.kind = "FeedOptic" /\ "None" \in {c.unit.radius, c.unit.rowland_azimuth}
    THEN "TypeError"
    ELSE "none"

\* the exception the surface property raises, or "none": SolarDisk.surface
\* takes np.cos of radius; FeedOptic.surface multiplies radius and reads
\* transformation
SurfaceRaises(c) ==
    CASE c.kind = "SolarDisk" -> CosQuantity(c.radius, c.unit.radius).error
      [] c.kind = "FeedOptic" -> TransformationRaises(c)
      [] OTHER -> "none"

\* whether the returned transformation can be applied to a point: its
\* translations are lengths and its rotations angles.  The steps are only
\* stored on access; a step with the wrong unit raises when it is applied.
UnitsApply(c) ==
    /\ c.kind = "FeedOptic" => c.unit.radius = "mm"
    /\ c.kind \in Kinds => c.unit.rowland_azimuth = "deg"

(***************************************************************************)
(* feed_optics.materials: the coating design, the witness measurement and  *)
(* the fit.  A quantity is a record [value, unit].                         *)
(***************************************************************************)
\* how far (in nm) the thicknesses of the optimizer's points lie from the
\* initial guess for a small step, and how far below 0 a long step would
\* take a thickness before the bounds are applied
MaxStep == 1
\* how far (in nm) the interface width of the optimizer's points lies from
\* the initial guess, before the bounds are applied
MaxWidthStep == 2
\* the most rows of a measurement table
MaxRows == 2

Quantity(value, unit) == [value |-> value, unit |-> unit]
\* quantity.to_value(unit), for the lengths of the design
ToValue(q, unit) ==
    IF q.unit = unit THEN q.value
    ELSE IF q.unit = "mm" /\ unit = "nm" THEN q.value * 1000000
    ELSE q.value \div 1000000

\* optika.materials.Layer(chemical, thickness, interface, kwargs_plot)
Layer(chemical, thickness, width, color, alpha) ==
    [chemical |-> chemical,
     thickness |-> thickness,
     interface |-> [type |-> "ErfInterfaceProfile", width |-> width],
     kwargs_plot |-> [color |-> color, alpha |-> alpha]]

\* coating_design()
coating_design ==
    [layers |-> <<Layer("MgF2", Quantity(25, "nm"), Quantity(1, "nm"), "tab:blue", "0.3"),
                  Layer("Al", Quantity(60, "nm"), Quantity(1, "nm"), "tab:blue", "0.5")>>,
     substrate |-> Layer("SiO2", Quantity(3, "mm"), Quantity(1, "nm"), "gray", "0.5")]

\* the rows a measurement table may hold: <<wavelength in nm, reflectivity
\* in percent>>
RowValues == {<<120, 60>>, <<160, 85>>}
RECURSIVE SeqsOfLen(_, _)
SeqsOfLen(S, n) ==
    IF n = 0 THEN {<<>>}
    ELSE {Append(q, e) : q \in SeqsOfLen(S, n - 1), e \in S}
\* the tables read from the data file: no row, or two rows and more
Tables == UNION {SeqsOfLen(RowValues, n) : n \in {0} \cup 2..MaxRows}

\* np.loadtxt(..., skiprows=1, unpack=True) assigned to the pair
\* (wavelength, reflectivity): the transposed columns; a table without
\* rows is an empty array, which does not unpack into two names
LoadTxtUnpacks(rows) == Len(rows) > 0
Columns(rows) ==
    [wavelength |-> [i \in 1..Len(rows) |-> rows[i][1]],
     reflectivity |-> [i \in 1..Len(rows) |-> rows[i][2]]]

\* reflectivity.to(u.dimensionless_unscaled): percent as a fraction
PercentToDimensionless(p) == [num |-> p, den |-> 100]

\* coating_witness_measured(), given the rows of the data file
coating_witness_measured(rows) ==
    [efficiency_measured |->
        [inputs |-> [wavelength |-> [i \in 1..Len(rows) |->
                                        Quantity(Columns(rows).wavelength[i], "nm")],
                     direction |-> Quantity(75, "deg")],
         outputs |-> [i \in 1..Len(rows) |->
                         PercentToDimensionless(Columns(rows).reflectivity[i])]],
     substrate |-> [chemical |-> "SiO2"]]

NoMeasurement == [efficiency_measured |-> "none"]
NoCoating == [layers |-> <<>>]

\* mutation: the interface width written to the two layers only
_coating_layers(x) ==
    [coating_design EXCEPT
        !.layers[1].thickness = Quantity(x[1], "nm"),
        !.layers[2].thickness = Quantity(x[2], "nm"),
        !.layers[1].interface.width = Quantity(x[3], "nm"),
        !.layers[2].interface.width = Quantity(x[3], "nm")]

\* mutation: the second thickness written to the substrate
_coating_substrate(x) ==
    [coating_design EXCEPT
        !.layers[1].thickness = Quantity(x[1], "nm"),
        !.substrate.thickness = Quantity(x[2], "nm"),
        !.layers[1].interface.width = Quantity(x[3], "nm"),
        !.layers[2].interface.width = Quantity(x[3], "nm"),
        !.substrate.interface.width = Quantity(x[3], "nm")]

\* coating_witness_fit._coating(thickness_MgF2, thickness_Al,
\* width_interface), x the three arguments: a new coating_design() with
\* the five assignments
_coating(x) ==
    [coating_design EXCEPT
        !.layers[1].thickness = Quantity(x[1], "nm"),
        !.layers[2].thickness = Quantity(x[2], "nm"),
        !.layers[1].interface.width = Quantity(x[3], "nm"),
        !.layers[2].interface.width = Quantity(x[3], "nm"),
        !.substrate.interface.width = Quantity(x[3], "nm")]

\* the x0 argument of scipy.optimize.minimize
x0(design) ==
    <<ToValue(design.layers[1].thickness, "nm"),
      ToValue(design.layers[2].thickness, "nm"),
      ToValue(design.substrate.interface.width, "nm")>>

\* mutations: no lower bound on any parameter, on the thickness of layer 1
\* only, on the thickness of layer 2 only, on the interface width only
boundsNoLower ==
    <<[lo |-> <<>>, hi |-> <<>>], [lo |-> <<>>, hi |-> <<>>], [lo |-> <<>>, hi |-> <<>>]>>
boundsNoLowerThickness1 ==
    <<[lo |-> <<>>, hi |-> <<>>], [lo |-> <<0>>, hi |-> <<>>], [lo |-> <<0>>, hi |-> <<>>]>>
boundsNoLowerThickness2 ==
    <<[lo |-> <<0>>, hi |-> <<>>], [lo |-> <<>>, hi |-> <<>>], [lo |-> <<0>>, hi |-> <<>>]>>
boundsNoLowerWidth ==
    <<[lo |-> <<0>>, hi |-> <<>>], [lo |-> <<0>>, hi |-> <<>>], [lo |-> <<>>, hi |-> <<>>]>>

\* the bounds argument: (0, None) three times; None is the empty sequence
bounds ==
    <<[lo |-> <<0>>, hi |-> <<>>], [lo |-> <<0>>, hi |-> <<>>], [lo |-> <<0>>, hi |-> <<>>]>>

\* the bounded optimizer keeps every point it evaluates or returns inside
\* the bounds
Clip(v, b) ==
    IF Len(b.lo) > 0 /\ v < b.lo[1] THEN b.lo[1]
    ELSE IF Len(b.hi) > 0 /\ v > b.hi[1] THEN b.hi[1]
    ELSE v
\* the steps the optimizer may take in a thickness that starts at t: the
\* small ones around t, and the long ones that would take the thickness
\* to 0 and below it
ThicknessSteps(t) ==
    ((-MaxStep)..MaxStep) \cup {-(t + k) : k \in 0..MaxStep}
\* the points the optimizer may try or report: each parameter of the
\* initial guess moved by one of its steps and kept inside its bounds
TrialPoints(start) ==
    {<<Clip(start[1] + d1, bounds[1]), Clip(start[2] + d2, bounds[2]),
       Clip(start[3] + d3, bounds[3])>> :
        d1 \in ThicknessSteps(start[1]), d2 \in ThicknessSteps(start[2]),
        d3 \in (-MaxWidthStep)..MaxWidthStep}

NoFit == [x |-> <<>>, success |-> FALSE]

(***************************************************************************)
(* State.                                                                  *)
(*   comp    the component instance under study (its fields)               *)
(*   result  what the last property access returned, until the next edit   *)
(* and of one call of coating_witness_fit():                               *)
(*   pc           where the call is                                        *)
(*   design, measurement, multilayer (the coating _func built last), x     *)
(*   (the point it was built for), fit (the optimizer's result)            *)
(*   returned     the coating the call returned                            *)
(*   raised       the exception the call ended with, or "none"             *)
(***************************************************************************)
VARIABLES comp, result, pc, design, measurement, x, multilayer, fit, returned, raised

compvars == <<comp, result>>
fitvars == <<pc, design, measurement, x, multilayer, fit, returned, raised>>
vars == <<comp, result, pc, design, measurement, x, multilayer, fit, returned, raised>>

NoResult == [access |-> "none"]

Init ==
    /\ comp = NoComponent
    /\ result = NoResult
    /\ pc = "start"
    /\ design = NoCoating
    /\ measurement = NoMeasurement
    /\ x = <<>>
    /\ multilayer = NoCoating
    /\ fit = NoFit
    /\ returned = NoCoating
    /\ raised = "none"

(***************************************************************************)
(* Construction: the dataclass-generated __init__ stores its arguments;    *)
(* no class defines __post_init__ or any validation.                       *)
(***************************************************************************)
ConstructFeedOptic(radius, rowland_radius, rowland_azimuth) ==
    /\ comp.kind = "none"
    /\ comp' = FeedOptic(radius, rowland_radius, rowland_azimuth)
    /\ result' = NoResult
    /\ UNCHANGED fitvars

ConstructGrating(rowland_radius, rowland_azimuth) ==
    /\ comp.kind = "none"
    /\ comp' = Grating(rowland_radius, rowland_azimuth)
    /\ result' = NoResult
    /\ UNCHANGED fitvars

ConstructDetector(rowland_radius, rowland_azimuth) ==
    /\ comp.kind = "none"
    /\ comp' = Detector(rowland_radius, rowland_azimuth)
    /\ result' = NoResult
    /\ UNCHANGED fitvars

(***************************************************************************)
(* Field edits: the dataclasses are not frozen, a field is assigned in     *)
(* place.                                                                  *)
(***************************************************************************)
SetField(field, value) ==
    /\ comp.kind # "none"
    /\ comp' = [comp EXCEPT ![field] = value]
    /\ result' = NoResult
    /\ UNCHANGED fitvars

EditRadius(v) == comp.kind = "FeedOptic" /\ SetField("radius", v)
EditRowlandRadius(v) == SetField("rowland_radius", v)
EditRowlandAzimuth(v) == SetField("rowland_azimuth", v)
EditTranslation(v) == SetField("translation", v)
EditPitch(v) == SetField("pitch", v)
EditYaw(v) == SetField("yaw", v)
EditRoll(v) == SetField("roll", v)

(***************************************************************************)
(* Property accesses.                                                      *)
(***************************************************************************)
\* what an access that raised leaves behind
Raised(accessor, error) == [access |-> "raised", of |-> accessor, error |-> error]

AccessTransformation ==
    /\ comp.kind # "none"
    /\ result' = IF TransformationRaises(comp) = "none"
                 THEN [access |-> "transformation", value |-> TransformationOf(comp),
                       applies |-> UnitsApply(comp)]
                 ELSE Raised("transformation", TransformationRaises(comp))
    /\ UNCHANGED comp
    /\ UNCHANGED fitvars

AccessSurface ==
    /\ comp.kind # "none"
    /\ result' = IF SurfaceRaises(comp) = "none"
                 THEN [access |-> "surface", value |-> SurfaceOf(comp),
                       applies |-> UnitsApply(comp)]
                 ELSE Raised("surface", SurfaceRaises(comp))
    /\ UNCHANGED comp
    /\ UNCHANGED fitvars

\* a.transformation_image: neither FeedOptic nor any of its bases defines
\* the attribute, the lookup ends in AttributeError
AccessTransformationImage ==
    /\ comp.kind = "FeedOptic"
    /\ result' = Raised("transformation_image", "AttributeError")
    /\ UNCHANGED comp
    /\ UNCHANGED fitvars

Next ==
    \/ \E r \in Lengths, rr \in RowlandRadii, az \in Azimuths :
           ConstructFeedOptic(r, rr, az)
    \/ \E rr \in RowlandRadii, az \in Azimuths : ConstructGrating(rr, az)
    \/ \E rr \in RowlandRadii, az \in Azimuths : ConstructDetector(rr, az)
    \/ \E v \in Lengths : EditRadius(v)
    \/ \E v \in RowlandRadii : EditRowlandRadius(v)
    \/ \E v \in Azimuths : EditRowlandAzimuth(v)
    \/ \E v \in Offsets : EditTranslation(v)
    \/ \E v \in PoseAngles : EditPitch(v)
    \/ \E v \in PoseAngles : EditYaw(v)
    \/ \E v \in PoseAngles : EditRoll(v)
    \/ AccessTransformation
    \/ AccessSurface

Spec == Init /\ [][Next]_vars

(***************************************************************************)
(* The five components with the fields of their surfaces: construction     *)
(* with defaults or with single keyword arguments, assignments to the      *)
(* fields the surfaces are built from, and the accesses.                   *)
(***************************************************************************)
\* the margins of a FeedOptic are drawn from 0..MaxMargin mm
MaxMargin == 1
\* at most MaxEdits of the electronics fields of a Detector leave their
\* defaults
MaxEdits == 2
\* an explicit radius of a SolarDisk is 1000 arcsec or 180 * k degrees,
\* k in 0..MaxSolarTurns
MaxSolarTurns == 2

Margins == 0..MaxMargin
\* aperture_subtent: no opening and the half cylinder
Subtents == {0, 180}
SolarRadii ==
    {Quantity(100000, "arcsec/100")} \cup {Quantity(180 * k, "deg") : k \in 0..MaxSolarTurns}
\* what is assigned to the radius of a component, by its kind
RadiusQuantities(kind) ==
    IF kind = "SolarDisk"
    THEN SolarRadii \cup {Quantity(1, "mm"), Quantity(0, "None")}
    ELSE {Quantity(v, "mm") : v \in Lengths} \cup {Quantity(0, "None")}
AzimuthUnits == {"deg", "mm"}
Supplied == {"sag", "material", "rulings"}
\* a value other than the default, for a field of Electronics
ElectronicsValue(field) ==
    IF field \in {"manufacturer", "model_number", "serial_number"} THEN "MSFC" ELSE 1
\* the electronics fields of c that are not at their defaults
Edited(c) == {f \in DOMAIN Electronics : c[f] # Electronics[f]}

\* Kind(): every field at its default
Construct(kind) ==
    /\ comp.kind = "none"
    /\ comp' = Default(kind)
    /\ result' = NoResult
    /\ UNCHANGED fitvars

\* SolarDisk(radius)
ConstructSolarDisk(radius) ==
    /\ comp.kind = "none"
    /\ comp' = SolarDisk(radius.value, radius.unit)
    /\ result' = NoResult
    /\ UNCHANGED fitvars

\* Kind(rowland_azimuth=azimuth * unit), for the Rowland components
ConstructAtAzimuth(kind, azimuth, unit) ==
    /\ comp.kind = "none"
    /\ comp' = [Default(kind) EXCEPT !.rowland_azimuth = azimuth,
                                     !.unit.rowland_azimuth = unit]
    /\ result' = NoResult
    /\ UNCHANGED fitvars

\* a.field = value * unit
SetQuantity(field, value, unit) ==
    /\ comp.kind # "none"
    /\ comp' = [comp EXCEPT ![field] = value, !.unit[field] = unit]
    /\ result' = NoResult
    /\ UNCHANGED fitvars

EditRadiusQuantity(q) ==
    /\ comp.kind \in {"FeedOptic", "SolarDisk"}
    /\ q \in RadiusQuantities(comp.kind)
    /\ SetQuantity("radius", q.value, q.unit)
EditApertureSubtent(v) == comp.kind = "FeedOptic" /\ SetField("aperture_subtent", v)
EditApertureHeight(v) == comp.kind = "FeedOptic" /\ SetField("aperture_height", v)
EditMarginPolishing(v) == comp.kind = "FeedOptic" /\ SetField("margin_polishing", v)
EditMarginMounting(v) == comp.kind = "FeedOptic" /\ SetField("margin_mounting", v)
EditWidthClear(v) == comp.kind = "Grating" /\ SetField("width_clear", v)
EditWidthMech(v) == comp.kind = "Grating" /\ SetField("width_mech", v)
EditSupplied(field) == comp.kind = "Grating" /\ SetField(field, "supplied")
EditNumPixel(v) == comp.kind = "Detector" /\ SetField("num_pixel", v)
EditElectronics(field) ==
    /\ comp.kind = "Detector"
    /\ Cardinality(Edited(comp) \cup {field}) <= MaxEdits
    /\ SetField(field, ElectronicsValue(field))

NextFields ==
    \/ \E kind \in Components : Construct(kind)
    \/ \E radius \in SolarRadii : ConstructSolarDisk(radius)
    \/ \E kind \in Kinds, az \in PoseAngles, unit \in AzimuthUnits :
           ConstructAtAzimuth(kind, az, unit)
    \/ \E q \in RadiusQuantities("SolarDisk") \cup RadiusQuantities("FeedOptic") :
           EditRadiusQuantity(q)
    \/ \E v \in Subtents : EditApertureSubtent(v)
    \/ \E v \in Lengths : EditApertureHeight(v)
    \/ \E v \in Margins : EditMarginPolishing(v)
    \/ \E v \in Margins : EditMarginMounting(v)
    \/ \E v \in Lengths : EditWidthClear(v)
    \/ \E v \in Lengths : EditWidthMech(v)
    \/ \E field \in Supplied : EditSupplied(field)
    \/ \E v \in Lengths : EditNumPixel(v)
    \/ \E field \in DOMAIN Electronics : EditElectronics(field)
    \/ AccessTransformation
    \/ AccessSurface
    \/ AccessTransformationImage

SpecFields == Init /\ [][NextFields]_vars

(***************************************************************************)
(* coating_witness_fit(), statement by statement.                          *)
(***************************************************************************)
\* design = coating_design()
Design ==
    /\ pc = "start"
    /\ design' = coating_design
    /\ pc' = "designed"
    /\ UNCHANGED <<measurement, x, multilayer, fit, returned, raised>>
    /\ UNCHANGED compvars

\* measurement = coating_witness_measured(), the data file holding rows
Measure(rows) ==
    /\ pc = "designed"
    /\ LoadTxtUnpacks(rows)
    /\ measurement' = coating_witness_measured(rows)
    /\ pc' = "measured"
    /\ UNCHANGED <<design, x, multilayer, fit, returned, raised>>
    /\ UNCHANGED compvars

\* the same with a data file that holds no row: the unpacking of the
\* loaded array raises ValueError, which nothing catches
MeasureRaises(rows) ==
    /\ pc = "designed"
    /\ ~LoadTxtUnpacks(rows)
    /\ raised' = "ValueError"
    /\ pc' = "raised"
    /\ UNCHANGED <<design, measurement, x, multilayer, fit, returned>>
    /\ UNCHANGED compvars

\* scipy.optimize.minimize starts: _func(x0)
Minimize ==
    /\ pc = "measured"
    /\ x' = x0(design)
    /\ multilayer' = _coating(x0(design))
    /\ pc' = "minimizing"
    /\ UNCHANGED <<design, measurement, fit, returned, raised>>
    /\ UNCHANGED compvars

\* the optimizer tries another point: _func(point)
Evaluate(point) ==
    /\ pc = "minimizing"
    /\ x' = point
    /\ multilayer' = _coating(point)
    /\ UNCHANGED <<pc, design, measurement, fit, returned, raised>>
    /\ UNCHANGED compvars

\* the optimizer stops: the result holds the point it reports, which need
\* not be the one it evaluated last, and whether it converged
Stop(point, success) ==
    /\ pc = "minimizing"
    /\ fit' = [x |-> point, success |-> success]
    /\ pc' = "minimized"
    /\ UNCHANGED <<design, measurement, x, multilayer, returned, raised>>
    /\ UNCHANGED compvars

\* return _coating of fit.x
Return ==
    /\ pc = "minimized"
    /\ returned' = _coating(fit.x)
    /\ pc' = "returned"
    /\ UNCHANGED <<design, measurement, x, multilayer, fit, raised>>
    /\ UNCHANGED compvars

NextFit ==
    \/ Design
    \/ \E rows \in Tables : Measure(rows)
    \/ \E rows \in Tables : MeasureRaises(rows)
    \/ Minimize
    \/ pc = "minimizing" /\ \E point \in TrialPoints(x0(design)) : Evaluate(point)
    \/ pc = "minimizing" /\ \E point \in TrialPoints(x0(design)), success \in BOOLEAN :
           Stop(point, success)
    \/ Return

SpecFit == Init /\ [][NextFit]_vars

(***************************************************************************)
(* Helpers of the properties.                                              *)
(***************************************************************************)
\* the origin and the three unit points (1 mm), which fix an affine map
ProbePoints == {<<0, 0, 0>>, <<2, 0, 0>>, <<0, 2, 0>>, <<0, 0, 2>>}
DistSq(p, q) ==
    (p[1] - q[1]) * (p[1] - q[1]) + (p[2] - q[2]) * (p[2] - q[2])
        + (p[3] - q[3]) * (p[3] - q[3])
\* the point of the Rowland circle at radius rr and azimuth az
Anchor(rr, az) == <<HalfMm(rr) * SinDeg(az), 0, HalfMm(rr) * CosDeg(az)>>
\* single steps, applied to a point
TranslateZ(halfmm, p) == <<p[1], p[2], p[3] + halfmm>>
TranslateBy(t, p) == <<p[1] + HalfMm(t[1]), p[2] + HalfMm(t[2]), p[3] + HalfMm(t[3])>>
RotateX(a, p) == <<p[1], CosDeg(a) * p[2] - SinDeg(a) * p[3], SinDeg(a) * p[2] + CosDeg(a) * p[3]>>
RotateY(a, p) == <<CosDeg(a) * p[1] + SinDeg(a) * p[3], p[2], CosDeg(a) * p[3] - SinDeg(a) * p[1]>>
RotateZ(a, p) == <<CosDeg(a) * p[1] - SinDeg(a) * p[2], SinDeg(a) * p[1] + CosDeg(a) * p[2], p[3]>>
\* the Rowland anchor: translate to the radius, then rotate to the azimuth
RowlandPoint(c, p) == RotateY(c.rowland_azimuth, TranslateZ(HalfMm(c.rowland_radius), p))
ZeroPose(c) ==
    c.translation = <<0, 0, 0>> /\ c.pitch = 0 /\ c.yaw = 0 /\ c.roll = 0
Accessed(kind, access) == comp.kind = kind /\ result.access = access

(***************************************************************************)
(* C1: constructing a Rowland component with rowland_radius < 0 fails, so  *)
(* no constructed instance has a negative rowland_radius.  The step that   *)
(* constructs an instance never leaves a negative radius in it.            *)
(* Violated: the constructors store whatever radius they are given.        *)
(***************************************************************************)
C1_ConstructionRejectsNegativeRadius ==
    [][(comp.kind = "none" /\ comp'.kind # "none") => comp'.rowland_radius >= 0]_vars

(***************************************************************************)
(* C2: FeedOptic.transformation is exactly, in this order on a local       *)
(* point: translate by -radius along z, the inherited Rowland and          *)
(* orientation transformation, translate by +radius/2 along z, and nothing *)
(* else.  Stated on the transformation an access returned.                 *)
(* Violated: the code rotates by -rowland_azimuth about y before the       *)
(* inherited transformation.                                               *)
(***************************************************************************)
C2_ThreeStepChain ==
    Accessed("FeedOptic", "transformation") =>
        \A p \in ProbePoints :
            Apply(result.value, p) =
                TranslateZ(HalfOf(comp.radius),
                    Apply(InheritedTransformation(comp),
                        TranslateZ(-HalfMm(comp.radius), p)))

(***************************************************************************)
(* C2, amended: the chain is translate by -radius along z, rotate by       *)
(* -rowland_azimuth about y, the inherited transformation, translate by    *)
(* +radius/2 along z.                                                      *)
(***************************************************************************)
C2_FourStepChain ==
    Accessed("FeedOptic", "transformation") =>
        \A p \in ProbePoints :
            Apply(result.value, p) =
                TranslateZ(HalfOf(comp.radius),
                    Apply(InheritedTransformation(comp),
                        RotateY(-comp.rowland_azimuth,
                            TranslateZ(-HalfMm(comp.radius), p))))

C2_Witness ==
    /\ Accessed("FeedOptic", "transformation")
    /\ comp.radius > 0
    /\ comp.rowland_radius > 0
    /\ comp.rowland_azimuth = 90

(***************************************************************************)
(* C3: for a FeedOptic with zero translation, pitch, yaw and roll, the     *)
(* transformation maps the local origin to a point at distance radius/2    *)
(* from the anchor point (rowland_radius sin(azimuth), 0,                  *)
(* rowland_radius cos(azimuth)) of the Rowland circle.                     *)
(***************************************************************************)
C3_ImageAtHalfRadius ==
    (Accessed("FeedOptic", "transformation") /\ ZeroPose(comp)) =>
        DistSq(Apply(result.value, Origin),
               Anchor(comp.rowland_radius, comp.rowland_azimuth))
            = HalfOf(comp.radius) * HalfOf(comp.radius)

C3_Witness ==
    /\ Accessed("FeedOptic", "transformation")
    /\ ZeroPose(comp)
    /\ comp.radius = 2
    /\ comp.rowland_radius = 1
    /\ comp.rowland_azimuth = 90

(***************************************************************************)
(* C4: the Rowland step translates by rowland_radius along z first and     *)
(* rotates by rowland_azimuth about y second: a component with identity    *)
(* local transformation has its origin at radius rowland_radius and        *)
(* azimuth rowland_azimuth, and the two steps in the other order give a    *)
(* different transformation whenever rowland_radius > 0 and the azimuth is *)
(* no multiple of 360 degrees.                                             *)
(***************************************************************************)
\* the two steps the other way round: rotate first, translate second
RotateThenTranslate(c) ==
    MatMulT(Cartesian3dTranslation(0, 0, c.rowland_radius),
            Cartesian3dRotationY(c.rowland_azimuth))

C4_TranslateThenRotate ==
    (comp.kind \in {"Grating", "Detector"} /\ result.access = "transformation"
        /\ ZeroPose(comp)) =>
        /\ Apply(result.value, Origin) = Anchor(comp.rowland_radius, comp.rowland_azimuth)
        /\ \A p \in ProbePoints : Apply(result.value, p) = RowlandPoint(comp, p)
        /\ (comp.rowland_radius > 0 /\ comp.rowland_azimuth % 360 # 0)
              => result.value # RotateThenTranslate(comp)

C4_Witness ==
    /\ Accessed("Detector", "transformation")
    /\ ZeroPose(comp)
    /\ comp.rowland_radius = 2
    /\ comp.rowland_azimuth = 270

(***************************************************************************)
(* C5: for Detector, Grating and FeedOptic alike, the local pose steps act *)
(* on a point first, in the order translation, roll, yaw, pitch, and the   *)
(* Rowland anchor steps act only after all of them (FeedOptic's extra      *)
(* steps around that).                                                     *)
(* Violated: the rotations act before the translation, and FeedOptic's     *)
(* translation acts after the Rowland steps.                               *)
(***************************************************************************)
\* the pose in the order the claim gives: translation, roll, yaw, pitch
PoseTranslationFirst(c, p) ==
    RotateX(c.pitch, RotateY(c.yaw, RotateZ(c.roll, TranslateBy(c.translation, p))))
\* the rotations in the order of the code: roll, yaw, pitch
PoseRotations(c, p) == RotateX(c.pitch, RotateY(c.yaw, RotateZ(c.roll, p)))
\* FeedOptic's steps before the inherited transformation
FeedOpticBefore(c, p) ==
    RotateY(-c.rowland_azimuth, TranslateZ(-HalfMm(c.radius), p))

C5_PoseThenRowlandEverywhere ==
    result.access = "transformation" =>
        \A p \in ProbePoints :
            Apply(result.value, p) =
                IF comp.kind = "FeedOptic"
                THEN TranslateZ(HalfOf(comp.radius),
                         RowlandPoint(comp,
                             PoseTranslationFirst(comp, FeedOpticBefore(comp, p))))
                ELSE RowlandPoint(comp, PoseTranslationFirst(comp, p))

(***************************************************************************)
(* C5, amended: for Detector and Grating a point undergoes roll, yaw,      *)
(* pitch, translation and then the Rowland steps; for FeedOptic it         *)
(* undergoes the two extra steps, roll, yaw, pitch, the Rowland steps, and *)
(* only then the translation and the last extra step.                      *)
(***************************************************************************)
C5_OrderPerComponent ==
    result.access = "transformation" =>
        \A p \in ProbePoints :
            Apply(result.value, p) =
                IF comp.kind = "FeedOptic"
                THEN TranslateZ(HalfOf(comp.radius),
                         TranslateBy(comp.translation,
                             RowlandPoint(comp,
                                 PoseRotations(comp, FeedOpticBefore(comp, p)))))
                ELSE RowlandPoint(comp,
                         TranslateBy(comp.translation, PoseRotations(comp, p)))

C5_Witness ==
    /\ Accessed("FeedOptic", "transformation")
    /\ comp.translation = <<1, 0, 0>>
    /\ comp.rowland_azimuth = 90
    /\ comp.rowland_radius = 1
    /\ comp.roll = 90
    /\ comp.yaw = 90
    /\ comp.pitch = 90

(***************************************************************************)
(* C6: surface and transformation are pure functions of the current field  *)
(* values.  What an access returned shows the fields as they are now       *)
(* (nothing stale), an access changes no field, and a second access with   *)
(* no edit in between returns the same value.                              *)
(***************************************************************************)
\* the value r an access returned shows the fields of c
ShowsFields(c, r) ==
    /\ r.access = "transformation" =>
           \A p \in ProbePoints : Apply(r.value, p) = Apply(TransformationOf(c), p)
    /\ r.access = "surface" =>
           /\ r.value.name = c.name
           /\ r.value.material = c.material
           /\ r.value.transformation = TransformationOf(c)
           /\ c.kind = "FeedOptic" => r.value.sag.radius = c.radius
           /\ c.kind = "Grating" =>
                  /\ r.value.sag = c.sag
                  /\ r.value.rulings = c.rulings
           /\ c.kind = "Detector" => r.value.num_pixel = c.num_pixel

\* a step that returns a value is an access: it changes no field, returns
\* what the access before it returned, and shows the fields as they are
C6_AccessIsPure ==
    [][result'.access # "none" =>
           /\ comp' = comp
           /\ result.access = result'.access => result' = result
           /\ ShowsFields(comp', result')]_vars

C6_Witness ==
    /\ Accessed("FeedOptic", "surface")
    /\ comp.radius = 2
    /\ comp.pitch = 90
    /\ comp.translation = <<0, 0, 1>>

(***************************************************************************)
(* C7: if the optimizer reports that it did not converge, the call raises  *)
(* an OptimizationError and returns no coating: a call that returned a     *)
(* coating had a converged fit.                                            *)
(* Violated: fit.success is never read; _coating of fit.x is returned       *)
(* whatever the optimizer reports.                                         *)
(***************************************************************************)
C7_NoCoatingWithoutConvergence ==
    pc = "returned" => fit.success

(***************************************************************************)
(* C8: with an empty measurement set (a table without rows) the call       *)
(* fails with an InputError before any optimization step.                  *)
(* Violated: the call does end before the optimization, but with the       *)
(* ValueError of unpacking the empty array; nothing checks the measurement *)
(* and nothing raises an InputError.                                       *)
(***************************************************************************)
\* the call is past the loading of a table without rows
LoadedNothing ==
    pc \notin {"start", "designed"} /\ measurement = NoMeasurement

C8_EmptyMeasurementIsInputError ==
    LoadedNothing =>
        /\ pc = "raised"
        /\ raised = "InputError"
        /\ multilayer = NoCoating
        /\ returned = NoCoating

(***************************************************************************)
(* C9: in the returned coating the thickness of layer 1 (MgF2), the        *)
(* thickness of layer 2 (Al) and the interface widths are all >= 0, for    *)
(* every point the bounded optimizer can return.                           *)
(***************************************************************************)
C9_FittedParametersNonNegative ==
    pc = "returned" =>
        /\ returned.layers[1].thickness.value >= 0
        /\ returned.layers[2].thickness.value >= 0
        /\ returned.layers[1].interface.width.value >= 0
        /\ returned.layers[2].interface.width.value >= 0
        /\ returned.substrate.interface.width.value >= 0

\* a returned coating with both thicknesses and the interface width on
\* their bounds, for a point the optimizer reports after it last evaluated
\* another
C9_Witness ==
    /\ pc = "returned"
    /\ fit.x = <<0, 0, 0>>
    /\ x # fit.x
    /\ returned.layers[1].thickness.value = 0
    /\ returned.layers[2].thickness.value = 0
    /\ returned.layers[1].interface.width.value = 0

(***************************************************************************)
(* C10: the returned coating has the chemicals, the layer order (MgF2,     *)
(* then Al, on SiO2) and the substrate thickness of coating_design(); only *)
(* the two layer thicknesses and the interface widths may differ; and the  *)
(* design object the initial guess was read from is as it was made.        *)
(***************************************************************************)
\* a coating with the thicknesses of its two layers and its interface
\* widths set to those of the coating d
WithFittedFieldsOf(c, d) ==
    [c EXCEPT
        !.layers[1].thickness = d.layers[1].thickness,
        !.layers[2].thickness = d.layers[2].thickness,
        !.layers[1].interface.width = d.layers[1].interface.width,
        !.layers[2].interface.width = d.layers[2].interface.width,
        !.substrate.interface.width = d.substrate.interface.width]

C10_OnlyFittedFieldsDiffer ==
    pc = "returned" =>
        /\ Len(returned.layers) = 2
        /\ returned.layers[1].chemical = "MgF2"
        /\ returned.layers[2].chemical = "Al"
        /\ returned.substrate.chemical = "SiO2"
        /\ returned.substrate.thickness = Quantity(3, "mm")
        /\ WithFittedFieldsOf(returned, coating_design) = coating_design
        /\ design = coating_design

\* a returned coating that does differ from the design
C10_Witness ==
    /\ pc = "returned"
    /\ returned.layers[1].thickness.value = 26
    /\ returned.layers[2].thickness.value = 59
    /\ returned.layers[1].interface.width.value = 3

(***************************************************************************)
(* C11: every component whose construction succeeded, with its fields at   *)
(* their defaults or set to whatever the constructor and the assignments   *)
(* accept, has surface and transformation accessed without error: no       *)
(* access of surface or transformation ends in an exception.               *)
(* Violated: nothing checks a field when it is stored; a radius of None    *)
(* (or, for SolarDisk, a radius that is no angle) is found only by the     *)
(* arithmetic of the property.                                             *)
(***************************************************************************)
C11_AccessNeverFails ==
    ~(result.access = "raised" /\ result.of \in {"surface", "transformation"})

(***************************************************************************)
(* C12: the facets a surface carries are those of the facet table:         *)
(* FrontAperture none (and the identity transformation at zero             *)
(* translation); SolarDisk a circular aperture and the field-stop flag;    *)
(* FeedOptic a cylindrical sag, rectangular clear and mechanical apertures *)
(* and the material; Grating the supplied sag, material and rulings,       *)
(* rectangular apertures of width_clear / 2 and width_mech / 2 and the     *)
(* pupil-stop flag; Detector the sensor material only.  Only SolarDisk is  *)
(* a field stop and only Grating a pupil stop.                             *)
(***************************************************************************)
Facets ==
    {"sag", "aperture", "aperture_mechanical", "material", "rulings",
     "is_field_stop", "is_pupil_stop"}
Populated(surface) == (DOMAIN surface) \cap Facets
Flagged(surface, flag) == flag \in DOMAIN surface /\ surface[flag]

C12_FacetTable ==
    result.access = "surface" =>
        LET surface == result.value
        IN  /\ comp.kind = "FrontAperture" =>
                   /\ Populated(surface) = {}
                   /\ comp.translation = <<0, 0, 0>> =>
                          surface.transformation = IdentityTransformation
            /\ comp.kind = "SolarDisk" =>
                   /\ Populated(surface) = {"aperture", "is_field_stop"}
                   /\ surface.aperture.type = "CircularAperture"
            /\ comp.kind = "FeedOptic" =>
                   /\ Populated(surface) =
                          {"sag", "aperture", "aperture_mechanical", "material"}
                   /\ surface.sag.type = "CylindricalSag"
                   /\ surface.aperture.type = "RectangularAperture"
                   /\ surface.aperture_mechanical.type = "RectangularAperture"
                   /\ surface.material = comp.material
            /\ comp.kind = "Grating" =>
                   /\ Populated(surface) =
                          {"sag", "aperture", "aperture_mechanical", "material",
                           "rulings", "is_pupil_stop"}
                   /\ surface.sag = comp.sag
                   /\ surface.material = comp.material
                   /\ surface.rulings = comp.rulings
                   /\ surface.aperture =
                          [type |-> "RectangularAperture", half_width_x2 |-> comp.width_clear]
                   /\ surface.aperture_mechanical =
                          [type |-> "RectangularAperture", half_width_x2 |-> comp.width_mech]
            /\ comp.kind = "Detector" => Populated(surface) = {"material"}
            /\ Flagged(surface, "is_field_stop") <=> comp.kind = "SolarDisk"
            /\ Flagged(surface, "is_pupil_stop") <=> comp.kind = "Grating"

C12_Witness ==
    /\ Accessed("Grating", "surface")
    /\ comp.sag = "supplied"
    /\ comp.rulings = "supplied"
    /\ comp.width_clear = 1
    /\ comp.width_mech = 2

(***************************************************************************)
(* C13: for a FeedOptic with radius > 0, aperture_subtent in 0..180        *)
(* degrees and margins >= 0, the mechanical aperture contains the clear    *)
(* one: its horizontal half width is at least radius * sin(subtent / 2),   *)
(* and vertically its extent, at its offset, covers                        *)
(* [-aperture_height / 2, aperture_height / 2] and exceeds it by at least  *)
(* the mounting margin below and the polishing margin above.               *)
(* Violated: the horizontal half width is 0.99 * radius, which is less     *)
(* than radius * sin(subtent / 2) for a subtent of 180 degrees.            *)
(***************************************************************************)
C13_MechanicalContainsClear ==
    (Accessed("FeedOptic", "surface") /\ comp.unit.radius = "mm" /\ comp.radius > 0
        /\ comp.aperture_subtent \in 0..180) =>
        LET clear == result.value.aperture.half_width_x2
            mech == result.value.aperture_mechanical
            \* twice the offset in mm, which is the offset in half millimetres
            offset2 == mech.transformation.v[2]
        IN  /\ 50 * clear[1] <= mech.half_width_x100
            /\ offset2 - mech.half_width_y2 <= -clear[2] - 2 * comp.margin_mounting
            /\ offset2 + mech.half_width_y2 >= clear[2] + 2 * comp.margin_polishing

(***************************************************************************)
(* C14: a Rowland component takes any rowland_azimuth, also one below 0 or *)
(* from 360 degrees on, without error, and the transformation is the one   *)
(* of the component whose azimuth is 360 degrees more or 360 degrees less. *)
(***************************************************************************)
C14_AzimuthModulo360 ==
    comp.kind \in Kinds =>
        /\ result.access # "raised"
        /\ result.access = "transformation" =>
               /\ result.value =
                      TransformationOf([comp EXCEPT !.rowland_azimuth = @ + 360])
               /\ result.value =
                      TransformationOf([comp EXCEPT !.rowland_azimuth = @ - 360])

C14_Witness ==
    /\ Accessed("Grating", "transformation")
    /\ comp.rowland_azimuth = -90
    /\ comp.rowland_radius = 2

(***************************************************************************)
(* C15: with rowland_radius = 0 and zero local translation the             *)
(* transformation of Detector, Grating and FeedOptic maps the local origin *)
(* to the centre of the Rowland circle, for every azimuth.                 *)
(* Violated: FeedOptic's origin lies radius / 2 from the centre.           *)
(***************************************************************************)
C15_AllAtCentre ==
    (comp.kind \in Kinds /\ result.access = "transformation"
        /\ comp.rowland_radius = 0 /\ comp.translation = <<0, 0, 0>>) =>
        Apply(result.value, Origin) = Origin

(***************************************************************************)
(* C15, amended: with rowland_radius = 0 and zero local translation the    *)
(* transformation of Detector and Grating maps the local origin to the     *)
(* centre for every azimuth, pitch, yaw and roll; that of FeedOptic with   *)
(* zero pitch, yaw and roll maps it to (0, 0, -radius / 2) for every       *)
(* azimuth, which is the centre only for radius = 0.                       *)
(***************************************************************************)
C15_CentreButFeedOptic ==
    (comp.kind \in Kinds /\ result.access = "transformation"
        /\ comp.rowland_radius = 0 /\ comp.translation = <<0, 0, 0>>) =>
        /\ comp.kind \in {"Grating", "Detector"} =>
               Apply(result.value, Origin) = Origin
        /\ (comp.kind = "FeedOptic" /\ ZeroPose(comp)) =>
               Apply(result.value, Origin) = <<0, 0, -HalfOf(comp.radius)>>

C15_Witness ==
    /\ Accessed("FeedOptic", "transformation")
    /\ ZeroPose(comp)
    /\ comp.rowland_radius = 0
    /\ comp.radius = 2
    /\ comp.rowland_azimuth = 90

(***************************************************************************)
(* C16: every FeedOptic has a read accessor transformation_image that      *)
(* returns a transformation without error.                                 *)
(* Violated: the class defines transformation and surface only; the        *)
(* access ends in AttributeError.                                          *)
(***************************************************************************)
C16_TransformationImageReturns ==
    ~(result.access = "raised" /\ result.of = "transformation_image")

(***************************************************************************)
(* C17: the rowland_azimuth of every Rowland component instance has an     *)
(* angle unit; no instance holds one with the unit of a length.            *)
(* Violated: the constructors store the quantity they are given, whatever  *)
(* its unit.                                                               *)
(***************************************************************************)
C17_AzimuthIsAngle ==
    comp.kind \in Kinds => comp.unit.rowland_azimuth \in {"deg", "rad"}

(***************************************************************************)
(* C18: the surface of every SolarDisk, constructed with the default or    *)
(* with an explicit angular radius, has a circular aperture whose radius   *)
(* is cos(angular radius) and is strictly positive.                        *)
(* Violated: an explicit radius of 180 degrees gives the radius -1.        *)
(***************************************************************************)
\* the radius of c is an angle
IsAngle(c) == c.unit.radius \in {"deg", "arcsec/100"}
\* the radius of c is an angle of less than 90 degrees
BelowQuarterTurn(c) ==
    \/ c.unit.radius = "deg" /\ c.radius > -90 /\ c.radius < 90
    \/ c.unit.radius = "arcsec/100" /\ c.radius > -32400000 /\ c.radius < 32400000

C18_ApertureCosPositive ==
    (Accessed("SolarDisk", "surface") /\ IsAngle(comp)) =>
        /\ result.value.aperture.type = "CircularAperture"
        /\ result.value.aperture.radius_e6 = CosQuantity(comp.radius, comp.unit.radius).e6
        /\ result.value.aperture.radius_e6 > 0

(***************************************************************************)
(* C18, amended: the radius of the circular aperture is cos(angular        *)
(* radius); it is strictly positive for the default radius and for every   *)
(* explicit angular radius of less than 90 degrees (cos(1000 arcsec) is    *)
(* 0.999988248), and is not positive for others, such as 180 degrees.      *)
(***************************************************************************)
C18_ApertureCos ==
    (Accessed("SolarDisk", "surface") /\ IsAngle(comp)) =>
        /\ result.value.aperture.type = "CircularAperture"
        /\ result.value.aperture.radius_e6 = CosQuantity(comp.radius, comp.unit.radius).e6
        /\ BelowQuarterTurn(comp) => result.value.aperture.radius_e6 > 0
        /\ (comp.unit.radius = "arcsec/100" /\ comp.radius = 100000) =>
               result.value.aperture.radius_e6 = 999988
        /\ (comp.unit.radius = "deg" /\ comp.radius = 180) =>
               result.value.aperture.radius_e6 = -1000000

C18_Witness ==
    /\ Accessed("SolarDisk", "surface")
    /\ comp.unit.radius = "arcsec/100"
    /\ comp.radius = 100000
    /\ result.value.aperture.radius_e6 > 0

(***************************************************************************)
(* C19: SolarDisk resolves an unset radius to the standard angular radius  *)
(* once, at construction: the step that constructs a SolarDisk leaves a    *)
(* set radius (the standard one if none was given), and an access writes   *)
(* no field and resolves nothing: on a radius unset after construction it  *)
(* returns no surface.                                                     *)
(***************************************************************************)
C19_ResolvedAtConstruction ==
    [][/\ (comp.kind = "none" /\ comp'.kind = "SolarDisk") =>
              /\ comp'.unit.radius # "None"
              /\ \/ Quantity(comp'.radius, comp'.unit.radius) \in SolarRadii
                 \/ /\ comp'.radius = average_angular_size
                    /\ comp'.unit.radius = "arcsec/100"
       /\ (comp.kind = "SolarDisk" /\ result'.access # "none") =>
              /\ comp' = comp
              /\ comp.unit.radius = "None" => result'.access # "surface"]_vars

C19_Witness ==
    /\ Accessed("SolarDisk", "surface")
    /\ comp.unit.radius = "arcsec/100"
    /\ comp.radius = average_angular_size
    /\ result.value.aperture.radius_e6 = 999989

(***************************************************************************)
(* C20: the surface of a Detector is that of the Detector with the same    *)
(* name, width_pixel, axis_pixel, num_pixel, timedelta_exposure, material  *)
(* and placement and every identification and readout-electronics field at *)
(* its default: two Detectors that agree on the former have equal          *)
(* surfaces.                                                               *)
(***************************************************************************)
C20_ElectronicsDoNotShow ==
    Accessed("Detector", "surface") =>
        result.value = DetectorSurface(Merge(Electronics, comp))

C20_Witness ==
    /\ Accessed("Detector", "surface")
    /\ comp.temperature = 1
    /\ comp.manufacturer = "MSFC"
    /\ comp.num_pixel = 2

(***************************************************************************)
(* C21: every coating the fit builds, for an evaluation of the objective   *)
(* and as the result, has one common interface width on layer 1, layer 2   *)
(* and the substrate, and the optimizer starts from the values of the      *)
(* design: the thickness of layer 1, the thickness of layer 2 and the      *)
(* interface width of the design.                                          *)
(***************************************************************************)
\* the coating c was built for the point p: its three interface widths
\* are the third parameter
CommonWidth(c, p) ==
    /\ c.layers[1].interface.width = Quantity(p[3], "nm")
    /\ c.layers[2].interface.width = c.layers[1].interface.width
    /\ c.substrate.interface.width = c.layers[1].interface.width

C21_CommonWidthFromDesign ==
    [][/\ multilayer' # multilayer => CommonWidth(multilayer', x')
       /\ returned' # returned => CommonWidth(returned', fit'.x)
       /\ (pc = "measured" /\ pc' = "minimizing") =>
              /\ x' = <<25, 60, 1>>
              /\ x'[1] = coating_design.layers[1].thickness.value
              /\ x'[2] = coating_design.layers[2].thickness.value
              /\ x'[3] = coating_design.layers[1].interface.width.value]_vars

\* a returned coating whose common width is not that of the design
C21_Witness ==
    /\ pc = "returned"
    /\ returned.substrate.interface.width.value = 3
    /\ returned.layers[2].interface.width.value = 3
    /\ multilayer.substrate.interface.width.value = 3

(***************************************************************************)
(* C22: for a FeedOptic with zero pitch, yaw and roll the transformation   *)
(* has no rotation, whatever rowland_azimuth is: the rotation by           *)
(* -rowland_azimuth cancels the Rowland rotation, and the transformation   *)
(* is the translation to the point of the circle at that azimuth, moved by *)
(* the local translation and by -radius / 2 along z.                       *)
(***************************************************************************)
C22_FeedOpticPureTranslation ==
    (Accessed("FeedOptic", "transformation")
        /\ comp.pitch = 0 /\ comp.yaw = 0 /\ comp.roll = 0) =>
        /\ result.value.m = IdentityMatrix
        /\ result.value.v =
               TranslateZ(-HalfOf(comp.radius),
                   TranslateBy(comp.translation,
                       Anchor(comp.rowland_radius, comp.rowland_azimuth)))

C22_Witness ==
    /\ Accessed("FeedOptic", "transformation")
    /\ comp.pitch = 0 /\ comp.yaw = 0 /\ comp.roll = 0
    /\ comp.rowland_azimuth = 90
    /\ comp.rowland_radius = 2
    /\ comp.radius = 1
    /\ comp.translation = <<0, 1, 0>>

====
